---- MODULE Spec2Model ----
(***************************************************************************)
(* The swing / flight / landing core of GymnasticsGame (src/src/game.ts).  *)
(*                                                                         *)
(* Numbers.  The program computes in IEEE doubles; the model computes in   *)
(* fixed point with three decimals: every length, speed, angle (radians)   *)
(* and force is an integer count of thousandths, and a time delta is an    *)
(* integer count of milliseconds.  A product of two such quantities is     *)
(* divided by 1000 and truncated toward zero (Mul), so the model is        *)
(* symmetric around 0 like the floating-point original.  Math.sin,         *)
(* Math.cos and Math.atan2 are computed (range reduction plus polynomial), *)
(* not assumed.                                                            *)
(***************************************************************************)
EXTENDS Integers, FiniteSets, Sequences, TLC

(***************************************************************************)
(* Bounds of the exploration.  The budgets are per episode: they start     *)
(* again whenever resetGymnast puts the gymnast back on bar 0.             *)
(***************************************************************************)
MaxFrames == 10
MaxKeyEvents == 4
MaxClockFrames == 5
MaxClockKeys == 2
MaxPumpFrames == 12
MaxPumpKeys == 2
MaxLiveFrames == 7
MaxLiveKeys == 3
MaxFlightFrames == 30

(***************************************************************************)
(* Program constants, in thousandths.                                      *)
(***************************************************************************)
gravity == -6500
maxSwingForce == 12000
radius == 1150
damping == 995
boost == 3000
grabDistance == 500
lowerBarHeight == 2500
higherBarHeight == 3500
barOffset == 1500
matCentre == 150
matHalfHeight == 150
matHalfWidth == 1500
matHalfDepth == 1000
bodyOffset == 500
maxDelta == 100
scoreGrab == 100
scoreMat == 200

\* Math.PI and its multiples, in thousandths of a radian.
Pi == 3142
TwoPi == 6283
HalfPi == 1571

(***************************************************************************)
(* Fixed-point arithmetic.                                                 *)
(***************************************************************************)
Abs(a) == IF a < 0 THEN -a ELSE a

\* Integer quotient truncated toward zero (b > 0).
TDiv(a, b) == IF a >= 0 THEN a \div b ELSE -((-a) \div b)

\* Product of two quantities held in thousandths.
Mul(a, b) == TDiv(a * b, 1000)

\* Quotient of two quantities held in thousandths.
Quot(a, b) == IF b > 0 THEN TDiv(a * 1000, b) ELSE -TDiv(a * 1000, -b)

\* Math.sin: reduce the angle to [-pi/2, pi/2], then x - x^3/3! + x^5/5! - x^7/7!.
sin(a) ==
  LET r0 == a % TwoPi
      r1 == IF r0 > Pi THEN r0 - TwoPi ELSE r0
      r  == IF r1 > HalfPi THEN Pi - r1
            ELSE IF r1 < -HalfPi THEN -Pi - r1 ELSE r1
      r2 == Mul(r, r)
      r3 == Mul(r2, r)
      r5 == Mul(r3, r2)
      r7 == Mul(r5, r2)
  IN  r - TDiv(r3, 6) + TDiv(r5, 120) - TDiv(r7, 5040)

\* Math.cos.
cos(a) == sin(a + HalfPi)

\* atan on [0, 1]: (pi/4) t + 0.273 t (1 - t).
AtanUnit(t) == TDiv(785 * t, 1000) + TDiv(TDiv(273 * t * (1000 - t), 1000), 1000)

\* Math.atan2(y, x).
atan2(y, x) ==
  IF x = 0 /\ y = 0 THEN 0
  ELSE LET ay == Abs(y)
           ax == Abs(x)
           a0 == IF ax >= ay THEN AtanUnit(Quot(ay, ax))
                 ELSE HalfPi - AtanUnit(Quot(ax, ay))
           a1 == IF x < 0 THEN Pi - a0 ELSE a0
       IN  IF y < 0 THEN -a1 ELSE a1

(***************************************************************************)
(* Geometry.                                                               *)
(***************************************************************************)
Vec(x, y, z) == [x |-> x, y |-> y, z |-> z]

Zero == Vec(0, 0, 0)

\* this.bars, indexed as in the program.
bars == [i \in {0, 1} |->
           IF i = 0 THEN Vec(0, lowerBarHeight, -barOffset)
           ELSE Vec(0, higherBarHeight, barOffset)]

\* this.mats, in the order they are pushed.
mats == << Vec(0, matCentre, -barOffset), Vec(0, matCentre, barOffset) >>

\* Square of Vector3.distanceTo.
DistanceSq(p, q) ==
  (p.x - q.x) * (p.x - q.x) + (p.y - q.y) * (p.y - q.y) + (p.z - q.z) * (p.z - q.z)

\* Where the gymnast hangs from bar 0 at rest.
HangPosition == [bars[0] EXCEPT !.y = @ - radius]

Keys == {"ArrowLeft", "ArrowRight", " "}

\* What clock.getDelta() can return, in milliseconds.
Elapsed == {100, 250}

ClockElapsed == {0, 16, 100, 250}

VARIABLES
  isHoldingBar,     \* this.isHoldingBar
  currentBar,       \* this.currentBar
  swingAngle,       \* this.swingAngle
  swingVelocity,    \* this.swingVelocity
  gymnastVelocity,  \* this.gymnastVelocity
  position,         \* this.gymnast.position
  rotationX,        \* this.gymnast.rotation.x
  score,            \* this.score
  swingForce,       \* this.swingForce
  fireActive,       \* this.fireActive
  fireVisible,      \* this.fireParticles.visible
  timers,           \* number of pending setTimeout callbacks
  keysDown,         \* keys physically held down (the keyboard, not the program)
  deltaTime,        \* deltaTime of the last frame
  frames,           \* frames run in this episode
  keyEvents,        \* key events delivered in this episode
  last              \* what the last handler did

gameVars == << isHoldingBar, currentBar, swingAngle, swingVelocity,
               gymnastVelocity, position, rotationX, score, fireActive,
               fireVisible, timers >>

vars == << isHoldingBar, currentBar, swingAngle, swingVelocity,
           gymnastVelocity, position, rotationX, score, swingForce,
           fireActive, fireVisible, timers, keysDown, deltaTime, frames,
           keyEvents, last >>

(***************************************************************************)
(* The fields the physics methods read and write, as one record.           *)
(***************************************************************************)
Game ==
  [ isHoldingBar |-> isHoldingBar, currentBar |-> currentBar,
    swingAngle |-> swingAngle, swingVelocity |-> swingVelocity,
    gymnastVelocity |-> gymnastVelocity, position |-> position,
    rotationX |-> rotationX, score |-> score, fireActive |-> fireActive,
    fireVisible |-> fireVisible, timers |-> timers ]

Becomes(g) ==
  /\ isHoldingBar' = g.isHoldingBar
  /\ currentBar' = g.currentBar
  /\ swingAngle' = g.swingAngle
  /\ swingVelocity' = g.swingVelocity
  /\ gymnastVelocity' = g.gymnastVelocity
  /\ position' = g.position
  /\ rotationX' = g.rotationX
  /\ score' = g.score
  /\ fireActive' = g.fireActive
  /\ fireVisible' = g.fireVisible
  /\ timers' = g.timers

(***************************************************************************)
(* The methods of GymnasticsGame, as functions of the record.              *)
(***************************************************************************)

\* startFireEffect: the flag and the particle system's visibility.
startFireEffect(g) == [g EXCEPT !.fireActive = TRUE, !.fireVisible = TRUE]

\* resetGymnast leaving the particle system visible.
resetGymnastKeepsParticles(g) ==
  [g EXCEPT !.currentBar = 0,
            !.isHoldingBar = TRUE,
            !.swingAngle = 0,
            !.swingVelocity = 0,
            !.gymnastVelocity = Zero,
            !.position = HangPosition,
            !.rotationX = 0,
            !.score = 0,
            !.fireActive = FALSE]

\* resetGymnast: back to bar 0, score 0, fire effect hidden.
resetGymnast(g) ==
  [g EXCEPT !.currentBar = 0,
            !.isHoldingBar = TRUE,
            !.swingAngle = 0,
            !.swingVelocity = 0,
            !.gymnastVelocity = Zero,
            !.position = HangPosition,
            !.rotationX = 0,
            !.score = 0,
            !.fireActive = FALSE,
            !.fireVisible = FALSE]

\* releaseBar adding the same boost whichever bar is left.
releaseBarSameBoost(g) ==
  IF ~g.isHoldingBar THEN g
  ELSE LET tangentialVelocity == Mul(g.swingVelocity, radius)
       IN  [g EXCEPT
              !.isHoldingBar = FALSE,
              !.gymnastVelocity =
                 Vec(0,
                     Mul(tangentialVelocity, sin(g.swingAngle)),
                     Mul(tangentialVelocity, cos(g.swingAngle)) + boost)]

\* releaseBar also clearing the swing state it has just converted.
releaseBarClearsSwing(g) ==
  IF ~g.isHoldingBar THEN g
  ELSE LET tangentialVelocity == Mul(g.swingVelocity, radius)
       IN  [g EXCEPT
              !.isHoldingBar = FALSE,
              !.swingVelocity = 0,
              !.gymnastVelocity =
                 Vec(0,
                     Mul(tangentialVelocity, sin(g.swingAngle)),
                     Mul(tangentialVelocity, cos(g.swingAngle))
                       + (IF g.currentBar = 0 THEN boost ELSE -boost))]

\* releaseBar writing the forward component of the velocity to the lateral axis.
releaseBarAlongX(g) ==
  IF ~g.isHoldingBar THEN g
  ELSE LET tangentialVelocity == Mul(g.swingVelocity, radius)
       IN  [g EXCEPT
              !.isHoldingBar = FALSE,
              !.gymnastVelocity =
                 Vec(Mul(tangentialVelocity, cos(g.swingAngle))
                       + (IF g.currentBar = 0 THEN boost ELSE -boost),
                     Mul(tangentialVelocity, sin(g.swingAngle)),
                     0)]

\* releaseBar: the swing's tangential velocity becomes the flight velocity.
releaseBar(g) ==
  IF ~g.isHoldingBar THEN g
  ELSE LET tangentialVelocity == Mul(g.swingVelocity, radius)
       IN  [g EXCEPT
              !.isHoldingBar = FALSE,
              !.gymnastVelocity =
                 Vec(0,
                     Mul(tangentialVelocity, sin(g.swingAngle)),
                     Mul(tangentialVelocity, cos(g.swingAngle))
                       + (IF g.currentBar = 0 THEN boost ELSE -boost))]

\* The loop of checkBarGrab skipping no bar.
GrabCandidateAny(g, i) == TRUE

\* The bars the loop of checkBarGrab does not skip.
GrabCandidate(g, i) == ~(i = g.currentBar /\ g.gymnastVelocity.y > 0)

\* The bars within grabDistance of the gymnast.
InGrabRange(g, i) ==
  DistanceSq(g.position, bars[i]) < grabDistance * grabDistance

\* GrabBar recording the bar after the one grabbed.
GrabBarWrongIndex(g, i) ==
  LET angle == atan2(g.position.z - bars[i].z, -(g.position.y - bars[i].y))
  IN  [g EXCEPT !.isHoldingBar = TRUE,
                !.currentBar = i + 1,
                !.swingAngle = angle,
                !.swingVelocity = Quot(Mul(g.gymnastVelocity.z, cos(angle)), radius),
                !.gymnastVelocity = Zero,
                !.score = @ + scoreGrab]

\* GrabBar leaving the linear velocity as it was.
GrabBarKeepsVelocity(g, i) ==
  LET angle == atan2(g.position.z - bars[i].z, -(g.position.y - bars[i].y))
  IN  [g EXCEPT !.isHoldingBar = TRUE,
                !.currentBar = i,
                !.swingAngle = angle,
                !.swingVelocity = Quot(Mul(g.gymnastVelocity.z, cos(angle)), radius),
                !.score = @ + scoreGrab]

\* The body of the loop of checkBarGrab when bar i is within reach.
GrabBar(g, i) ==
  LET dz == g.position.z - bars[i].z
      dy == g.position.y - bars[i].y
      angle == atan2(dz, -dy)
  IN  [g EXCEPT !.isHoldingBar = TRUE,
                !.currentBar = i,
                !.swingAngle = angle,
                !.swingVelocity = Quot(Mul(g.gymnastVelocity.z, cos(angle)), radius),
                !.gymnastVelocity = Zero,
                !.score = @ + scoreGrab]

\* The loop of checkBarGrab from bar i on: the first bar in reach wins.
RECURSIVE GrabLoop(_, _)
GrabLoop(g, i) ==
  IF i \notin DOMAIN bars THEN g
  ELSE IF ~GrabCandidate(g, i) THEN GrabLoop(g, i + 1)
  ELSE IF InGrabRange(g, i) THEN GrabBar(g, i)
  ELSE GrabLoop(g, i + 1)

checkBarGrab(g) == GrabLoop(g, 0)

\* The test of checkMatCollision for mat j.
OnMat(g, j) ==
  LET mat == mats[j]
      matTop == mat.y + matHalfHeight
  IN  /\ g.position.y <= matTop + bodyOffset
      /\ g.position.x >= mat.x - matHalfWidth
      /\ g.position.x <= mat.x + matHalfWidth
      /\ g.position.z >= mat.z - matHalfDepth
      /\ g.position.z <= mat.z + matHalfDepth

\* LandOnMat without the snap of the height to the mat's top.
LandOnMatNoSnap(g, j) ==
  [startFireEffect([g EXCEPT !.gymnastVelocity = Zero])
     EXCEPT !.score = @ + scoreMat, !.timers = @ + 1]

\* LandOnMat awarding the bonus of a bar grab.
LandOnMatGrabBonus(g, j) ==
  LET matTop == mats[j].y + matHalfHeight
      landed == [g EXCEPT !.position.y = matTop + bodyOffset,
                          !.gymnastVelocity = Zero]
  IN  [startFireEffect(landed) EXCEPT !.score = @ + scoreGrab, !.timers = @ + 1]

\* LandOnMat without the call of setTimeout.
LandOnMatNoTimer(g, j) ==
  LET matTop == mats[j].y + matHalfHeight
      landed == [g EXCEPT !.position.y = matTop + bodyOffset,
                          !.gymnastVelocity = Zero]
  IN  [startFireEffect(landed) EXCEPT !.score = @ + scoreMat]

\* The body of the loop of checkMatCollision when the gymnast is on mat j.
LandOnMat(g, j) ==
  LET matTop == mats[j].y + matHalfHeight
      landed == [g EXCEPT !.position.y = matTop + bodyOffset,
                          !.gymnastVelocity = Zero]
      burning == startFireEffect(landed)
  IN  [burning EXCEPT !.score = @ + scoreMat, !.timers = @ + 1]

\* The loop of checkMatCollision from mat j on: the first mat hit wins.
RECURSIVE MatLoop(_, _)
MatLoop(g, j) ==
  IF j > Len(mats) THEN g
  ELSE IF OnMat(g, j) THEN LandOnMat(g, j)
  ELSE MatLoop(g, j + 1)

\* checkMatCollision without the fireActive guard.
checkMatCollisionUnguarded(g) ==
  IF g.isHoldingBar THEN g ELSE MatLoop(g, 1)

checkMatCollision(g) ==
  IF g.isHoldingBar \/ g.fireActive THEN g ELSE MatLoop(g, 1)

\* The pendulum with the restoring term taken along the arm (cos for sin).
PendulumCosGravity(g, force, dt) ==
  LET barPos == bars[g.currentBar]
      v1 == g.swingVelocity + Mul(force, dt)
      gravityComponent == Mul(Quot(gravity, radius), cos(g.swingAngle))
      v3 == Mul(v1 + Mul(gravityComponent, dt), damping)
      angle == g.swingAngle + Mul(v3, dt)
  IN  [g EXCEPT !.swingVelocity = v3,
                !.swingAngle = angle,
                !.position = Vec(barPos.x,
                                 barPos.y - Mul(radius, cos(angle)),
                                 barPos.z + Mul(radius, sin(angle))),
                !.rotationX = angle]

\* The pendulum with the swing angle normalised to (-pi, pi] after each step.
PendulumWrapsAngle(g, force, dt) ==
  LET barPos == bars[g.currentBar]
      v1 == g.swingVelocity + Mul(force, dt)
      gravityComponent == Mul(Quot(gravity, radius), sin(g.swingAngle))
      v3 == Mul(v1 + Mul(gravityComponent, dt), damping)
      sum == g.swingAngle + Mul(v3, dt)
      angle == IF sum > Pi THEN sum - TwoPi
               ELSE IF sum < -Pi THEN sum + TwoPi ELSE sum
  IN  [g EXCEPT !.swingVelocity = v3,
                !.swingAngle = angle,
                !.position = Vec(barPos.x,
                                 barPos.y - Mul(radius, cos(angle)),
                                 barPos.z + Mul(radius, sin(angle))),
                !.rotationX = angle]

\* The pendulum without the rotation of the body.
PendulumNoRotation(g, force, dt) ==
  LET barPos == bars[g.currentBar]
      v1 == g.swingVelocity + Mul(force, dt)
      gravityComponent == Mul(Quot(gravity, radius), sin(g.swingAngle))
      v3 == Mul(v1 + Mul(gravityComponent, dt), damping)
      angle == g.swingAngle + Mul(v3, dt)
  IN  [g EXCEPT !.swingVelocity = v3,
                !.swingAngle = angle,
                !.position = Vec(barPos.x,
                                 barPos.y - Mul(radius, cos(angle)),
                                 barPos.z + Mul(radius, sin(angle)))]

\* updatePhysics, Holding branch: one step of the pendulum.
Pendulum(g, force, dt) ==
  LET barPos == bars[g.currentBar]
      v1 == g.swingVelocity + Mul(force, dt)
      gravityComponent == Mul(Quot(gravity, radius), sin(g.swingAngle))
      v2 == v1 + Mul(gravityComponent, dt)
      v3 == Mul(v2, damping)
      angle == g.swingAngle + Mul(v3, dt)
  IN  [g EXCEPT !.swingVelocity = v3,
                !.swingAngle = angle,
                !.position = Vec(barPos.x,
                                 barPos.y - Mul(radius, cos(angle)),
                                 barPos.z + Mul(radius, sin(angle))),
                !.rotationX = angle]

\* updatePhysics, Airborne branch: gravity, then position += velocity * dt.
FreeFall(g, dt) ==
  LET vy == g.gymnastVelocity.y + Mul(gravity, dt)
  IN  [g EXCEPT !.gymnastVelocity.y = vy,
                !.position = Vec(g.position.x + Mul(g.gymnastVelocity.x, dt),
                                 g.position.y + Mul(vy, dt),
                                 g.position.z + Mul(g.gymnastVelocity.z, dt))]

\* The Airborne branch up to and including the mat check.
AfterGrab(g, dt) == checkBarGrab(FreeFall(g, dt))

AfterMat(g, dt) == checkMatCollision(AfterGrab(g, dt))

\* The ground check with the test of fireActive inverted.
HitGroundInverted(g) == g.position.y < 0 /\ g.fireActive

\* The ground check without its test of fireActive.
HitGroundIgnoresFire(g) == g.position.y < 0

\* The condition of the ground check at the end of the Airborne branch.
HitGround(g) == g.position.y < 0 /\ ~g.fireActive

updatePhysics(g, force, dt) ==
  IF g.isHoldingBar THEN Pendulum(g, force, dt)
  ELSE LET m == AfterMat(g, dt)
       IN  IF HitGround(m) THEN resetGymnast(m) ELSE m

\* updateFireParticles: returns at once unless the fire effect is active;
\* otherwise every particle is moved by its velocity times dt.
updateFireParticles(g, dt) ==
  [ran |-> g.fireActive, dt |-> IF g.fireActive THEN dt ELSE 0]

\* animate passing the clock's delta on as it is.
ClampDeltaNone(elapsed) == elapsed

\* animate: the clock's delta, capped.
ClampDelta(elapsed) == IF elapsed < maxDelta THEN elapsed ELSE maxDelta

(***************************************************************************)
(* What a handler did, recorded for the properties below.                  *)
(***************************************************************************)
Quiet ==
  [ handler |-> "none", key |-> "", released |-> FALSE, flight |-> FALSE,
    skipped |-> FALSE, grabbed |-> FALSE, landed |-> FALSE, failed |-> FALSE,
    reset |-> FALSE, particles |-> FALSE, particleDt |-> 0 ]

FrameReport(g, dt) ==
  IF g.isHoldingBar THEN [Quiet EXCEPT !.handler = "animate"]
  ELSE LET f == FreeFall(g, dt)
           b == checkBarGrab(f)
           m == checkMatCollision(b)
       IN  [Quiet EXCEPT
              !.handler = "animate",
              !.flight = TRUE,
              !.skipped = ~GrabCandidate(f, f.currentBar)
                            /\ InGrabRange(f, f.currentBar),
              !.grabbed = b.isHoldingBar,
              !.landed = m.timers > b.timers,
              !.failed = HitGround(m),
              !.reset = HitGround(m)]

(***************************************************************************)
(* The state after construction.                                           *)
(***************************************************************************)
Init ==
  /\ isHoldingBar = TRUE
  /\ currentBar = 0
  /\ swingAngle = 0
  /\ swingVelocity = 0
  /\ gymnastVelocity = Zero
  /\ position = HangPosition
  /\ rotationX = 0
  /\ score = 0
  /\ swingForce = 0
  /\ fireActive = FALSE
  /\ fireVisible = FALSE
  /\ timers = 0
  /\ keysDown = {}
  /\ deltaTime = 0
  /\ frames = 0
  /\ keyEvents = 0
  /\ last = Quiet

(***************************************************************************)
(* The handlers.                                                           *)
(***************************************************************************)

\* The keydown listener without its test of isHoldingBar on the arrow keys.
KeyDownAnyMode(k) ==
  /\ keyEvents' = keyEvents + 1
  /\ keysDown' = keysDown \cup {k}
  /\ IF k = "ArrowLeft"
       THEN swingForce' = -maxSwingForce /\ UNCHANGED gameVars
     ELSE IF k = "ArrowRight"
       THEN swingForce' = maxSwingForce /\ UNCHANGED gameVars
     ELSE IF isHoldingBar /\ k = " "
       THEN Becomes(releaseBar(Game)) /\ UNCHANGED swingForce
     ELSE UNCHANGED << swingForce, gameVars >>
  /\ last' = [Quiet EXCEPT !.handler = "keydown", !.key = k,
                           !.released = isHoldingBar /\ k = " "]
  /\ UNCHANGED << deltaTime, frames >>

\* The keydown listener.
KeyDown(k) ==
  /\ keyEvents' = keyEvents + 1
  /\ keysDown' = keysDown \cup {k}
  /\ IF isHoldingBar /\ k = "ArrowLeft"
       THEN swingForce' = -maxSwingForce /\ UNCHANGED gameVars
     ELSE IF isHoldingBar /\ k = "ArrowRight"
       THEN swingForce' = maxSwingForce /\ UNCHANGED gameVars
     ELSE IF isHoldingBar /\ k = " "
       THEN Becomes(releaseBar(Game)) /\ UNCHANGED swingForce
     ELSE UNCHANGED << swingForce, gameVars >>
  /\ last' = [Quiet EXCEPT !.handler = "keydown", !.key = k,
                           !.released = isHoldingBar /\ k = " "]
  /\ UNCHANGED << deltaTime, frames >>

\* The keyup listener clearing the force for one arrow key only.
KeyUpLeftOnly(k) ==
  /\ k \in keysDown
  /\ keyEvents' = keyEvents + 1
  /\ keysDown' = keysDown \ {k}
  /\ swingForce' = IF k = "ArrowLeft" THEN 0 ELSE swingForce
  /\ last' = [Quiet EXCEPT !.handler = "keyup", !.key = k]
  /\ UNCHANGED << gameVars, deltaTime, frames >>

\* The keyup listener.
KeyUp(k) ==
  /\ k \in keysDown
  /\ keyEvents' = keyEvents + 1
  /\ keysDown' = keysDown \ {k}
  /\ swingForce' = IF k \in {"ArrowLeft", "ArrowRight"} THEN 0 ELSE swingForce
  /\ last' = [Quiet EXCEPT !.handler = "keyup", !.key = k]
  /\ UNCHANGED << gameVars, deltaTime, frames >>

\* animate: one frame of the requestAnimationFrame loop.
Animate(elapsed) ==
  LET dt == ClampDelta(elapsed)
      report == FrameReport(Game, dt)
      after == updatePhysics(Game, swingForce, dt)
      particles == updateFireParticles(after, dt)
  IN  /\ Becomes(after)
      /\ deltaTime' = dt
      /\ last' = [report EXCEPT !.particles = particles.ran,
                                !.particleDt = particles.dt]
      /\ frames' = IF report.reset THEN 0 ELSE frames + 1
      /\ keyEvents' = IF report.reset THEN 0 ELSE keyEvents
      /\ UNCHANGED << swingForce, keysDown >>

\* The deferred callback restoring everything but the score.
TimeoutKeepsScore ==
  /\ timers > 0
  /\ Becomes([resetGymnast(Game) EXCEPT !.timers = @ - 1, !.score = score])
  /\ last' = [Quiet EXCEPT !.handler = "timeout", !.reset = TRUE]
  /\ frames' = 0
  /\ keyEvents' = 0
  /\ UNCHANGED << swingForce, keysDown, deltaTime >>

\* The callback given to setTimeout by checkMatCollision.
Timeout ==
  /\ timers > 0
  /\ Becomes([resetGymnast(Game) EXCEPT !.timers = @ - 1])
  /\ last' = [Quiet EXCEPT !.handler = "timeout", !.reset = TRUE]
  /\ frames' = 0
  /\ keyEvents' = 0
  /\ UNCHANGED << swingForce, keysDown, deltaTime >>

\* The event loop: any handler may run next.  An episode is explored for at
\* most maxFrames frames and maxKeys key events, with the clock's deltas
\* drawn from deltas.
Step(maxFrames, maxKeys, deltas) ==
  \/ \E k \in Keys : keyEvents < maxKeys /\ KeyDown(k)
  \/ \E k \in Keys : keyEvents < maxKeys /\ KeyUp(k)
  \/ \E elapsed \in deltas : frames < maxFrames /\ Animate(elapsed)
  \/ Timeout

Next == Step(MaxFrames, MaxKeyEvents, Elapsed)

Spec == Init /\ [][Next]_vars

\* The same program with an irregular clock (frames of 0 ms, 16 ms, 100 ms
\* and longer pauses), explored over shorter episodes.
NextClock == Step(MaxClockFrames, MaxClockKeys, ClockElapsed)

SpecClock == Init /\ [][NextClock]_vars

\* The same program with a regular clock and few key events, explored over
\* longer episodes.
NextPump == Step(MaxPumpFrames, MaxPumpKeys, Elapsed)

SpecPump == Init /\ [][NextPump]_vars

\* A frame of the requestAnimationFrame loop with the gymnast in the air.
\* A flight is never cut short.  After a landing the gymnast keeps falling
\* until the timer fires, which it does 2000 ms later: those frames are
\* explored until the episode has MaxFlightFrames frames.
FlightFrame ==
  \E elapsed \in Elapsed :
    /\ ~isHoldingBar
    /\ fireActive => frames < MaxFlightFrames
    /\ Animate(elapsed)

\* A frame with the gymnast on a bar; an episode is explored for at most
\* MaxLiveFrames of them before a release.
SwingFrame ==
  \E elapsed \in Elapsed :
    isHoldingBar /\ frames < MaxLiveFrames /\ Animate(elapsed)

\* The event loop with the frame loop and the timer running on: the browser
\* keeps calling animate (every frame here has dt > 0) and fires a pending
\* timer.
NextLive ==
  \/ \E k \in Keys : keyEvents < MaxLiveKeys /\ KeyDown(k)
  \/ \E k \in Keys : keyEvents < MaxLiveKeys /\ KeyUp(k)
  \/ SwingFrame
  \/ FlightFrame
  \/ Timeout

\* What every frame run in the air does to the count of frames: animate
\* adds one, or resetGymnast starts the count again.  animate is total, so a
\* frame can run in the air whenever FlightFrame's guard holds.
FrameCounted ==
  /\ ~isHoldingBar
  /\ fireActive => frames < MaxFlightFrames
  /\ frames' \in {0, frames + 1}

\* requestAnimationFrame keeps calling animate and a pending timer fires:
\* frames keep being counted in the air, and Timeout is not put off forever.
SpecLive ==
  Init /\ [][NextLive]_vars /\ WF_frames(FrameCounted) /\ WF_vars(Timeout)

(***************************************************************************)
(* Properties.                                                             *)
(***************************************************************************)
ArrowKeys == {"ArrowLeft", "ArrowRight"}

KeyEvent(r) == r.handler \in {"keydown", "keyup"}

\* A frame whose Airborne branch runs.
FlightStep == last'.handler = "animate" /\ ~isHoldingBar

\* matTop + 0.5 (both mats have the same top).
LandedHeight == matCentre + matHalfHeight + bodyOffset

\* The values resetGymnast is documented to restore.
IsResetState(g) ==
  /\ g.isHoldingBar
  /\ g.currentBar = 0
  /\ g.swingAngle = 0
  /\ g.swingVelocity = 0
  /\ g.gymnastVelocity = Vec(0, 0, 0)
  /\ g.position = Vec(0, lowerBarHeight - radius, -barOffset)
  /\ g.rotationX = 0
  /\ g.score = 0
  /\ ~g.fireActive

\* C1: at most one deferred reset is pending at any time; a mat landing
\* happens only with none pending and leaves exactly one; the timer's
\* callback takes the one pending away; and while one is pending no other
\* reset (ground-fail or otherwise) takes place.
C1_DeferredResetOnce ==
  [][ /\ timers <= 1 /\ timers' <= 1
      /\ last'.landed => (timers = 0 /\ timers' = 1)
      /\ last'.handler = "timeout" => (timers = 1 /\ timers' = 0)
      /\ (timers > 0 /\ last'.reset) => last'.handler = "timeout"
      /\ timers' # timers => (last'.landed \/ last'.handler = "timeout")
    ]_vars

\* C1 witness: a deferred reset is pending and a flight step has taken the
\* gymnast below the ground, where a ground-fail reset would otherwise fire.
C1_Witness ==
  timers = 1 /\ fireActive /\ last.flight /\ ~isHoldingBar /\ position.y < 0

\* C2: a flight step that ends its grab check Airborne, fire inactive, on a
\* mat at height <= matTop + 0.5 puts the height at matTop + 0.5, zeroes the
\* velocity, activates the fire effect, adds 200 to the score and schedules
\* one deferred reset; a flight step that starts with the fire effect active
\* lands on nothing: no timer is added and the score does not grow by 200.
C2_MatLanding ==
  [][ FlightStep =>
        LET b == AfterGrab(Game, deltaTime')
            onMat == \E j \in DOMAIN mats :
                       /\ b.position.y <= mats[j].y + matHalfHeight + bodyOffset
                       /\ Abs(b.position.x - mats[j].x) <= matHalfWidth
                       /\ Abs(b.position.z - mats[j].z) <= matHalfDepth
        IN  /\ (~b.isHoldingBar /\ ~b.fireActive /\ onMat) =>
                 /\ last'.landed
                 /\ position' = [b.position EXCEPT !.y = LandedHeight]
                 /\ gymnastVelocity' = Vec(0, 0, 0)
                 /\ fireActive'
                 /\ score' = score + scoreMat
                 /\ timers' = timers + 1
                 /\ ~isHoldingBar'
            /\ fireActive =>
                 /\ ~last'.landed
                 /\ timers' = timers
                 /\ score' # score + scoreMat
    ]_vars

\* C2 witness: a frame has just landed the gymnast on a mat from above.
C2_Witness ==
  /\ last.landed /\ fireActive /\ timers = 1 /\ score = scoreMat
  /\ position.y = LandedHeight /\ gymnastVelocity = Zero

\* C3: a flight step whose mat check ends Airborne, fire inactive and below
\* height 0 resets in the same frame: Holding bar 0, angle and angular
\* velocity 0, velocity 0, hanging under bar 0, rotation 0, score 0, fire
\* effect inactive.
C3_GroundFailResets ==
  [][ FlightStep =>
        LET m == AfterMat(Game, deltaTime')
        IN  (~m.isHoldingBar /\ ~m.fireActive /\ m.position.y < 0) =>
              (last'.reset /\ IsResetState(Game'))
    ]_vars

\* C3 witness: a frame has just reset the gymnast after hitting the ground.
C3_Witness == last.handler = "animate" /\ last.failed /\ isHoldingBar

\* C4: in a flight step whose vertical velocity (after gravity) is > 0 the
\* departure bar is not grabbed: a grab in that step selects the other bar.
C4_NoRegrabAscending ==
  [][ FlightStep =>
        LET f == FreeFall(Game, deltaTime')
        IN  (f.gymnastVelocity.y > 0 /\ isHoldingBar') => currentBar' # currentBar
    ]_vars

\* C4 witness: a flight step passed within grabbing distance of the
\* departure bar while ascending and stayed Airborne.
C4_Witness == last.skipped /\ ~isHoldingBar /\ gymnastVelocity.y > 0

\* The bars a flight step may grab from where the gymnast is after moving.
Eligible(f) ==
  { i \in DOMAIN bars :
      /\ ~(i = f.currentBar /\ f.gymnastVelocity.y > 0)
      /\ DistanceSq(f.position, bars[i]) < grabDistance * grabDistance }

\* C5: a flight step with an eligible bar in range grabs the lowest-indexed
\* one: Holding, currentBar that bar, velocity zero, score + 100 exactly; a
\* flight step with none grabs nothing.
C5_GrabFirstBar ==
  [][ FlightStep =>
        LET f == FreeFall(Game, deltaTime')
            E == Eligible(f)
        IN  /\ E # {} =>
                 /\ isHoldingBar'
                 /\ currentBar' \in E
                 /\ \A i \in E : currentBar' <= i
                 /\ gymnastVelocity' = Vec(0, 0, 0)
                 /\ score' = score + scoreGrab
                 /\ last'.grabbed
            /\ E = {} => ~last'.grabbed
    ]_vars

\* C5 witness: a frame has just grabbed the other bar.
C5_Witness ==
  last.grabbed /\ isHoldingBar /\ currentBar = 1 /\ score = scoreGrab

\* A key-down of the release key delivered while Holding.
ReleasePress == last'.handler = "keydown" /\ last'.key = " " /\ isHoldingBar

\* C6: a release while Holding makes the mode Airborne and the velocity
\* (0, w*1.15*sin(a), w*1.15*cos(a) + boost), boost +3 from bar 0 and -3 from
\* bar 1, a function of (swingAngle, swingVelocity, currentBar) alone, and
\* leaves currentBar, position, score and the fire flag as they were.
C6_ReleaseVelocity ==
  [][ ReleasePress =>
        LET tangential == Mul(swingVelocity, radius)
        IN  /\ ~isHoldingBar'
            /\ gymnastVelocity'.x = 0
            /\ gymnastVelocity'.y = Mul(tangential, sin(swingAngle))
            /\ gymnastVelocity'.z =
                 Mul(tangential, cos(swingAngle))
                   + (IF currentBar = 0 THEN 3000 ELSE -3000)
            /\ UNCHANGED << currentBar, position, score, fireActive >>
    ]_vars

\* C6 witness: the gymnast has just released bar 1 with a swing under way.
C6_Witness ==
  /\ last.released /\ ~isHoldingBar /\ currentBar = 1
  /\ swingVelocity # 0 /\ swingAngle # 0

C8_AirborneKeysIgnored ==
  [][ (KeyEvent(last') /\ ~isHoldingBar) => UNCHANGED << swingForce, gameVars >>
    ]_vars

\* C8 as amended: while Airborne a key-down changes nothing, and a key-up
\* changes nothing but swingForce, which the key-up of an arrow key sets to 0.
C8_AirborneKeysAmended ==
  [][ (KeyEvent(last') /\ ~isHoldingBar) =>
        /\ UNCHANGED gameVars
        /\ swingForce' = IF last'.handler = "keyup" /\ last'.key \in ArrowKeys
                           THEN 0 ELSE swingForce
    ]_vars

\* C8 witness: an arrow key went down in flight and the force is still 0.
C8_Witness ==
  /\ last.handler = "keydown" /\ last.key \in ArrowKeys
  /\ ~isHoldingBar /\ swingForce = 0 /\ frames > 0

\* C9: swingForce is -12, 0 or +12; it is non-zero only while an arrow key is
\* held down; and right after the key-up of an arrow key it is 0.
C9_ForceValues ==
  /\ swingForce \in {-12000, 0, 12000}
  /\ swingForce # 0 => keysDown \cap ArrowKeys # {}
  /\ (last.handler = "keyup" /\ last.key \in ArrowKeys) => swingForce = 0

\* C9 witness: one arrow key has just gone up while the other is still held.
C9_Witness ==
  /\ last.handler = "keyup" /\ last.key = "ArrowRight"
  /\ "ArrowLeft" \in keysDown /\ swingForce = 0 /\ frames > 0

\* C10: the session starts Holding bar 0 at rest with score 0 and no fire
\* effect; the mode is always one of Holding / Airborne and currentBar is
\* always 0 or 1; currentBar changes only in a bar grab, to the bar grabbed,
\* and in a reset, to 0.
C10_ModeAndBar ==
  /\ isHoldingBar = TRUE /\ currentBar = 0 /\ swingAngle = 0
  /\ swingVelocity = 0 /\ gymnastVelocity = Vec(0, 0, 0) /\ score = 0
  /\ fireActive = FALSE
  /\ [](isHoldingBar \in BOOLEAN /\ currentBar \in {0, 1})
  /\ [][ currentBar' # currentBar =>
           \/ /\ FlightStep /\ last'.grabbed /\ isHoldingBar'
              /\ currentBar' \in Eligible(FreeFall(Game, deltaTime'))
           \/ last'.reset /\ currentBar' = 0
       ]_vars

\* C10 witness: the gymnast is in flight after leaving bar 1, which it had
\* grabbed in this episode.
C10_Witness ==
  ~isHoldingBar /\ currentBar = 1 /\ last.flight /\ score = scoreGrab

\* C11: the score is a non-negative integer in every state; every change of
\* it is +100 in a frame that grabs a bar, +200 in a frame that lands on a
\* mat, or a reset to 0; and it decreases only in a reset.
C11_ScoreChanges ==
  /\ [](score \in Nat)
  /\ [][ /\ score' # score =>
             \/ last'.grabbed /\ ~last'.reset /\ score' = score + 100
             \/ last'.landed /\ ~last'.reset /\ score' = score + 200
             \/ last'.reset /\ score' = 0
         /\ score' < score => last'.reset
       ]_vars

\* C11 witness: a frame has just added a second grab bonus to the score.
C11_Witness == score = 200 /\ last.grabbed /\ isHoldingBar

\* C12 as stated: a non-zero score is set to 0 only by a ground-fail.
C12_ZeroOnlyOnFailure ==
  [][ (score > 0 /\ score' = 0) => last'.failed ]_vars

\* C12 as amended: a non-zero score is set to 0 only by a reset, which is
\* either the ground-fail reset of a frame or the deferred reset of a mat
\* landing; the deferred reset fires with the fire effect active and the
\* landing's 200 still in the score, and sets the score to 0 with no
\* ground-fail in between.
C12_ZeroOnReset ==
  [][ /\ (score > 0 /\ score' = 0) =>
            /\ last'.reset
            /\ last'.failed \/ last'.handler = "timeout"
      /\ last'.handler = "timeout" =>
            /\ fireActive /\ ~last'.failed
            /\ score >= 200 /\ score' = 0
    ]_vars

\* C12 witness: the deferred reset of a mat landing has just put the gymnast
\* back on bar 0 with score 0.
C12_Witness ==
  /\ last.handler = "timeout" /\ last.reset /\ ~last.failed
  /\ score = 0 /\ isHoldingBar /\ ~fireActive /\ timers = 0

\* C13: a frame that starts Holding with swing angle 0, angular velocity 0
\* and applied force 0 ends, whatever its dt in [0, 0.1], Holding the same
\* bar with swing angle 0, angular velocity 0 and the position at the bar's
\* anchor lowered by 1.15; so without key events the gymnast stays there.
C13_StableEquilibrium ==
  [][ ( /\ last'.handler = "animate" /\ isHoldingBar
        /\ swingAngle = 0 /\ swingVelocity = 0 /\ swingForce = 0 ) =>
        /\ isHoldingBar' /\ currentBar' = currentBar
        /\ swingAngle' = 0 /\ swingVelocity' = 0
        /\ position' = Vec(bars[currentBar].x, bars[currentBar].y - 1150,
                           bars[currentBar].z)
        /\ swingForce' = 0
    ]_vars

\* C13 witness: several frames of different lengths have run from the start
\* with no key event, the last one 16 ms long, and the gymnast hangs at rest.
C13_Witness ==
  /\ frames >= 3 /\ keyEvents = 0 /\ last.handler = "animate" /\ deltaTime = 16
  /\ isHoldingBar /\ swingForce = 0 /\ swingAngle = 0 /\ swingVelocity = 0
  /\ position = HangPosition

\* C14: an episode in which an arrow key is held from its first frame on,
\* with no key event, has |swingAngle| > 2*pi once 11 frames of dt = 0.1 have
\* run; and every pendulum step changes swingAngle by exactly the new
\* angular velocity times dt, with no wrap, clamp or normalisation.
C14_FullRotation ==
  /\ []( ( /\ isHoldingBar /\ keyEvents = 0 /\ swingForce # 0
           /\ frames >= 11 ) => Abs(swingAngle) > TwoPi )
  /\ [][ (last'.handler = "animate" /\ isHoldingBar) =>
           /\ isHoldingBar'
           /\ swingAngle' = swingAngle + Mul(swingVelocity', deltaTime')
       ]_vars

\* C14 witness: from the start one arrow key went down, nothing else was
\* pressed, and the swing angle has passed a full turn.
C14_Witness ==
  /\ isHoldingBar /\ keysDown = {"ArrowRight"} /\ keyEvents = 1
  /\ last.handler = "animate" /\ swingAngle > TwoPi /\ swingVelocity > 0

\* C15: the dt of every frame, with which its pendulum or flight step is
\* evaluated, satisfies 0 <= dt <= 0.1 whatever the clock returned, and when
\* the particle step of the frame runs it is evaluated with that same dt.
C15_DeltaClamped ==
  last.handler = "animate" =>
    /\ 0 <= deltaTime /\ deltaTime <= 100
    /\ last.particles => last.particleDt = deltaTime
    /\ last.particles <=> fireActive

\* C15 witness: a flight step and the particle step have just run in one
\* frame, both with the largest dt.
C15_Witness ==
  /\ last.handler = "animate" /\ last.flight /\ last.particles
  /\ deltaTime = maxDelta /\ last.particleDt = maxDelta

\* C16: a frame does at most one of bar grab, mat landing and ground-fail
\* reset, and a frame that starts Holding does none; a landing happens only
\* in a frame still Airborne after its grab check, a ground-fail reset only
\* in a frame still Airborne with the fire effect inactive after its mat
\* check; a frame that grabs or lands raises the score and does not reset.
C16_OneOutcomePerFrame ==
  [][ /\ last'.handler = "animate" =>
            /\ ~(last'.grabbed /\ last'.landed)
            /\ ~(last'.grabbed /\ last'.failed)
            /\ ~(last'.landed /\ last'.failed)
            /\ (last'.grabbed \/ last'.landed) => (~last'.reset /\ score' > score)
            /\ isHoldingBar => ~(last'.grabbed \/ last'.landed \/ last'.failed)
      /\ FlightStep =>
            LET b == AfterGrab(Game, deltaTime')
                m == AfterMat(Game, deltaTime')
            IN  /\ last'.grabbed <=> b.isHoldingBar
                /\ last'.landed => (~b.isHoldingBar /\ ~b.fireActive)
                /\ last'.failed =>
                     (~m.isHoldingBar /\ ~m.fireActive /\ score' = 0)
                /\ last'.reset <=> last'.failed
    ]_vars

\* C16 witness: a frame has just landed the gymnast on a mat at a point the
\* flight step had taken below the landing height, with no grab and no
\* reset in that frame.
C16_Witness ==
  /\ last.handler = "animate" /\ last.landed /\ ~last.grabbed /\ ~last.failed
  /\ ~last.reset /\ ~isHoldingBar /\ score >= scoreMat /\ currentBar = 0

\* C17 as stated: from a mat landing until its deferred reset, that is while
\* the fire effect is active, the velocity is (0,0,0) and the height is
\* matTop + 0.5.
C17_StaysLanded ==
  fireActive => (gymnastVelocity = Vec(0, 0, 0) /\ position.y = LandedHeight)

\* The gymnast hangs from bar currentBar at swingAngle, 1.15 from the bar, and
\* the body is rotated by swingAngle.
Consistent(g) ==
  LET anchor == bars[g.currentBar]
  IN  /\ g.position = Vec(anchor.x,
                          anchor.y - Mul(1150, cos(g.swingAngle)),
                          anchor.z + Mul(1150, sin(g.swingAngle)))
      /\ g.rotationX = g.swingAngle

\* C18 as stated: after every frame and every reset that ends Holding,
\* position and rotation agree with swingAngle, the frame of a bar grab
\* included.
C18_ConsistentWhenHolding ==
  (isHoldingBar /\ (last.handler = "animate" \/ last.reset)) => Consistent(Game)

\* C18 as amended: position and rotation agree with swingAngle after every
\* frame that started Holding (a pendulum step) and after every reset; the
\* frame of a bar grab leaves the position where the flight step put it,
\* less than 0.5 from the bar and so not 1.15 from it, and leaves the
\* rotation as it was, until the pendulum step of the next frame.
C18_ConsistentAfterPendulum ==
  /\ []( ( /\ isHoldingBar /\ ~last.grabbed
           /\ last.handler = "animate" \/ last.reset ) => Consistent(Game) )
  /\ []( (isHoldingBar /\ last.grabbed) =>
           /\ DistanceSq(position, bars[currentBar]) < 500 * 500
           /\ ~Consistent(Game) )
  /\ [][ (FlightStep /\ last'.grabbed) =>
           /\ position' = FreeFall(Game, deltaTime').position
           /\ rotationX' = rotationX
       ]_vars

\* C18 witness: the frame after a grab of bar 1 has swung the gymnast on that
\* bar.
C18_Witness ==
  /\ isHoldingBar /\ currentBar = 1 /\ last.handler = "animate" /\ ~last.flight
  /\ swingAngle # 0 /\ rotationX = swingAngle /\ Consistent(Game)

\* C19: in every state the lateral component of the velocity is 0 and the
\* lateral coordinate of the gymnast is the bars' lateral coordinate, 0.
C19_PlanarMotion ==
  /\ gymnastVelocity.x = 0
  /\ position.x = 0
  /\ \A i \in DOMAIN bars : bars[i].x = position.x

\* C19 witness: the gymnast is in flight, moving forward and upward, after a
\* release from a swing.
C19_Witness ==
  /\ ~isHoldingBar /\ last.flight /\ frames >= 3
  /\ gymnastVelocity.z # 0 /\ gymnastVelocity.y > 0 /\ position.z # bars[0].z

\* C20: in every state the fire effect is active exactly when a deferred
\* reset is pending and exactly when the particle system is visible, and
\* while it is active the mode is Airborne.
C20_FireIffPending ==
  /\ fireActive <=> timers > 0
  /\ fireActive <=> fireVisible
  /\ fireActive => ~isHoldingBar

\* C20 witness: a key went up between a landing and its deferred reset, with
\* the fire effect active, the reset pending and the gymnast Airborne.
C20_Witness ==
  /\ fireActive /\ fireVisible /\ timers = 1 /\ ~isHoldingBar
  /\ last.handler = "keyup" /\ last.key = " "

\* C21: with the frame loop and the timer running on, every state in which
\* the gymnast is Airborne is followed by one in which it is Holding; and
\* every step from Airborne to Holding is a bar grab, a ground-fail reset or
\* the deferred reset of a mat landing.
C21_FlightEnds ==
  /\ (~isHoldingBar) ~> isHoldingBar
  /\ [][ (~isHoldingBar /\ isHoldingBar') =>
           \/ last'.handler = "animate" /\ last'.grabbed /\ ~last'.reset
           \/ last'.handler = "animate" /\ last'.failed /\ timers = 0
           \/ last'.handler = "timeout" /\ fireActive
       ]_vars

\* C21 witness: the deferred reset has just ended a flight that had landed
\* on a mat and then fallen below the ground with the fire effect active.
C21_Witness ==
  /\ isHoldingBar /\ last.handler = "timeout" /\ last.reset
  /\ timers = 0 /\ ~fireActive /\ position = HangPosition

====
